---- MODULE Spec2Model ----
(***************************************************************************)
(* Gynocare FAQ retrieval engine (src/banco.py): the build of the vector   *)
(* collection from the spreadsheet (garantir_banco_vetorial_de_xlsx) and   *)
(* the query (buscar_perguntas_no_banco).                                  *)
(*                                                                         *)
(* Text is a sequence of one-character strings, so that strip(), lower(),  *)
(* json.dumps / json.loads and the pipe escaping are computed, character   *)
(* by character, as Python computes them.  The character U+00E1 (a with    *)
(* acute accent) is written "U+00E1".                                      *)
(*                                                                         *)
(* A DataFrame cell is NaN (what pandas reads from an empty cell) or a     *)
(* text; numeric cells are outside the inputs enumerated here.             *)
(*                                                                         *)
(* The ChromaDB calls are modelled by their contract.  Two of them may     *)
(* fail: collection.add (banco.py:157) and collection.query                *)
(* (banco.py:209).  os.makedirs and PersistentClient are taken to succeed. *)
(***************************************************************************)
EXTENDS Integers, Sequences, FiniteSets, TLC

VARIABLES planilha, dirExiste, colecao, pc, forcar, df, agrupadas, ret, efeitos, colAntes, consulta

vars == <<planilha, dirExiste, colecao, pc, forcar, df, agrupadas, ret, efeitos, colAntes, consulta>>

\* ------------------------------------------------------------------ bounds

\* Longest spreadsheet (data rows) of the grouping specification.
MaxLinhas == 3

\* Longest spreadsheet (data rows) of the store specification.
MaxLinhasLoja == 2

\* Largest n_results of a query.
MaxK == 2

\* Largest (scaled) cosine distance the store reports.
MaxDist == 1

\* The processes that may call garantir_banco_vetorial_de_xlsx.
Construtores == {"b1", "b2"}

\* ------------------------------------------------------------------ text

Maiusculas == <<"A", "B", "C", "D", "E", "F", "G", "H", "I", "J", "K", "L", "M", "N", "O", "P", "Q", "R", "S", "T", "U", "V", "W", "X", "Y", "Z">>

Minusculas == <<"a", "b", "c", "d", "e", "f", "g", "h", "i", "j", "k", "l", "m", "n", "o", "p", "q", "r", "s", "t", "u", "v", "w", "x", "y", "z">>

Digitos == <<"0", "1", "2", "3", "4", "5", "6", "7", "8", "9">>

\* str.isspace for the characters of the alphabet.
EhEspaco(c) == c \in {" ", "\t", "\n", "\r"}

RECURSIVE LStrip(_)
LStrip(s) == IF s = <<>> THEN s ELSE IF EhEspaco(Head(s)) THEN LStrip(Tail(s)) ELSE s

RECURSIVE RStrip(_)
RStrip(s) == IF s = <<>> THEN s ELSE IF EhEspaco(s[Len(s)]) THEN RStrip(SubSeq(s, 1, Len(s) - 1)) ELSE s

\* str.strip()
Strip(s) == RStrip(LStrip(s))

LowerChar(c) == IF \E i \in 1..Len(Maiusculas) : Maiusculas[i] = c THEN Minusculas[CHOOSE i \in 1..Len(Maiusculas) : Maiusculas[i] = c] ELSE c

\* str.lower()
Lower(s) == [i \in 1..Len(s) |-> LowerChar(s[i])]

RECURSIVE IntToStr(_)
\* str(int) of a natural number: its decimal digits.
IntToStr(n) == IF n < 10 THEN <<Digitos[n + 1]>> ELSE IntToStr(n \div 10) \o <<Digitos[(n % 10) + 1]>>

RECURSIVE Concat(_)
Concat(ss) == IF ss = <<>> THEN <<>> ELSE Head(ss) \o Concat(Tail(ss))

RECURSIVE Join(_, _)
\* sep.join(ss)
Join(sep, ss) == IF ss = <<>> THEN <<>> ELSE IF Len(ss) = 1 THEN ss[1] ELSE ss[1] \o sep \o Join(sep, Tail(ss))

\* ------------------------------------------------------------------ cells

NaN == [nan |-> TRUE, s |-> <<>>]

Txt(s) == [nan |-> FALSE, s |-> s]

\* pd.isna(cell)
IsNa(c) == c.nan

\* str(cell): str(float('nan')) is "nan", str of a text is the text.
Str(c) == IF c.nan THEN <<"n", "a", "n">> ELSE c.s

NA == <<"N", "/", "A">>

\* ------------------------------------------------------------------ json.dumps

\* One character inside a JSON string, as json.dumps (ensure_ascii=True) writes it.
JsonEscapeChar(c) ==
    CASE c = "\"" -> <<"\\", "\"">>
      [] c = "\\" -> <<"\\", "\\">>
      [] c = "\n" -> <<"\\", "n">>
      [] c = "\r" -> <<"\\", "r">>
      [] c = "\t" -> <<"\\", "t">>
      [] c = "U+00E1" -> <<"\\", "u", "0", "0", "e", "1">>
      [] OTHER -> <<c>>

JsonStr(s) == <<"\"">> \o Concat([i \in 1..Len(s) |-> JsonEscapeChar(s[i])]) \o <<"\"">>

\* json.dumps({"idade": i, "resposta": r})
JsonItem(it) == <<"{">> \o JsonStr(<<"i", "d", "a", "d", "e">>) \o <<":", " ">> \o JsonStr(it.idade) \o <<",", " ">> \o JsonStr(<<"r", "e", "s", "p", "o", "s", "t", "a">>) \o <<":", " ">> \o JsonStr(it.resposta) \o <<"}">>

\* json.dumps(respostas_list), a list of {"idade", "resposta"} dicts.
JsonDumps(lista) == <<"[">> \o Join(<<",", " ">>, [i \in 1..Len(lista) |-> JsonItem(lista[i])]) \o <<"]">>

\* ------------------------------------------------------------------ spreadsheet

LerExcelSemColunas(arq) ==
    IF ~arq.existe THEN [erro |-> "FileNotFoundError", linhas |-> <<>>]
    ELSE [erro |-> "", linhas |-> [i \in 1..Len(arq.linhas) |-> [pergunta |-> arq.linhas[i][1], idade |-> arq.linhas[i][2], resposta |-> IF Len(arq.linhas[i]) >= 3 THEN arq.linhas[i][3] ELSE NaN]]]
\* pd.read_excel + the column check: the first three columns of every row,
\* or the error the build returns None on.
LerExcel(arq) ==
    IF ~arq.existe THEN [erro |-> "FileNotFoundError", linhas |-> <<>>]
    ELSE IF arq.ncols < 3 THEN [erro |-> "colunas", linhas |-> <<>>]
    ELSE [erro |-> "", linhas |-> [i \in 1..Len(arq.linhas) |-> [pergunta |-> arq.linhas[i][1], idade |-> arq.linhas[i][2], resposta |-> arq.linhas[i][3]]]]

RECURSIVE FfillDe(_, _)
\* Series.ffill(): every NaN takes the last value above it that is not NaN.
FfillDe(col, ultimo) ==
    IF col = <<>> THEN <<>>
    ELSE IF IsNa(Head(col)) THEN <<ultimo>> \o FfillDe(Tail(col), ultimo)
    ELSE <<Head(col)>> \o FfillDe(Tail(col), Head(col))

SemFfill(col) == col
Ffill(col) == FfillDe(col, NaN)

\* df["pergunta"] = df["pergunta"].ffill()
FfillPergunta(linhas) ==
    LET col == Ffill([i \in 1..Len(linhas) |-> linhas[i].pergunta])
    IN [i \in 1..Len(linhas) |-> [linhas[i] EXCEPT !.pergunta = col[i]]]

PerguntaInvalidaSemLower(p) == p = <<>> \/ p = <<"n", "a", "n">>
\* not pergunta_orig or pergunta_orig.lower() == "nan"
PerguntaInvalida(p) == p = <<>> \/ Lower(p) = <<"n", "a", "n">>

\* "N/A" if pd.isna(cell) else str(cell).strip()
ValorOuNA(c) == IF IsNa(c) THEN NA ELSE Strip(Str(c))

\* The position of key p in the ordered dict d, 0 when absent.
Posicao(d, p) == IF \E i \in 1..Len(d) : d[i].pergunta = p THEN CHOOSE i \in 1..Len(d) : d[i].pergunta = p ELSE 0

InserirNaFrente(d, p, par) ==
    LET i == Posicao(d, p)
    IN IF i = 0 THEN <<[pergunta |-> p, respostas |-> <<par>>]>> \o d
       ELSE [d EXCEPT ![i].respostas = <<par>> \o @]
\* perguntas_agrupadas[p].append(par), creating the key (last) when it is new.
Inserir(d, p, par) ==
    LET i == Posicao(d, p)
    IN IF i = 0 THEN Append(d, [pergunta |-> p, respostas |-> <<par>>])
       ELSE [d EXCEPT ![i].respostas = Append(@, par)]

RECURSIVE AgruparLinhas(_, _)
\* The loop over df.iterrows(): d is perguntas_agrupadas, an insertion-ordered dict
\* written as the sequence of its (key, list) pairs.
AgruparLinhas(linhas, d) ==
    IF linhas = <<>> THEN d
    ELSE LET row == Head(linhas)
             pergunta_orig == Strip(Str(row.pergunta))
         IN IF PerguntaInvalida(pergunta_orig) THEN AgruparLinhas(Tail(linhas), d)
            ELSE AgruparLinhas(Tail(linhas), Inserir(d, pergunta_orig, [idade |-> ValorOuNA(row.idade), resposta |-> ValorOuNA(row.resposta)]))

\* Forward fill, then group.
Agrupar(linhas) == AgruparLinhas(FfillPergunta(linhas), <<>>)

\* ------------------------------------------------------------------ index entries

IdItem(n) == <<"q", "_", "e", "x", "c", "e", "l", "_">> \o IntToStr(n)

\* A metadata dict, written as the sequence of its (key, value) pairs.
Metadados(pergunta, json) == <<[k |-> "pergunta_original_excel", v |-> pergunta], [k |-> "respostas_por_idade_json", v |-> json]>>

RECURSIVE EntradasDe(_, _)
\* The loop over perguntas_agrupadas.items(): ids, documents and metadatas, one
\* entry per question with a non-empty list; n is item_count.
EntradasDe(d, n) ==
    IF d = <<>> THEN <<>>
    ELSE IF Head(d).respostas = <<>> THEN EntradasDe(Tail(d), n)
    ELSE <<[id |-> IdItem(n), documento |-> Head(d).pergunta, metadata |-> Metadados(Head(d).pergunta, JsonDumps(Head(d).respostas))]>> \o EntradasDe(Tail(d), n + 1)

EntradasTodasZero(d) == [i \in 1..Len(EntradasDe(d, 0)) |-> [EntradasDe(d, 0)[i] EXCEPT !.id = IdItem(0)]]
Entradas(d) == EntradasDe(d, 0)

\* ------------------------------------------------------------------ the store

SemColecao == [existe |-> FALSE, itens |-> <<>>]

IdsDe(itens) == {itens[i].id : i \in 1..Len(itens)}

\* The entries among novas whose id the collection does not hold yet.
SoNovas(itens, novas) == SelectSeq(novas, LAMBDA e : e.id \notin IdsDe(itens))

\* The outcomes of collection.add(ids, documents, metadatas): ok and the entries
\* the collection holds afterwards.  The add may fail having inserted a proper
\* prefix of the batch; ids the collection already holds are skipped or make the
\* add fail (the two behaviours of the ChromaDB releases); a collection deleted
\* since the handle was taken makes it fail.
ResultadosAdd(col, novas) ==
    IF ~col.existe THEN {[ok |-> FALSE, itens |-> col.itens]}
    ELSE {[ok |-> TRUE, itens |-> col.itens \o SoNovas(col.itens, novas)]}
         \cup {[ok |-> FALSE, itens |-> col.itens \o SubSeq(SoNovas(col.itens, novas), 1, k)] : k \in 0..(Len(SoNovas(col.itens, novas)) - 1)}
         \cup (IF SoNovas(col.itens, novas) # novas THEN {[ok |-> FALSE, itens |-> col.itens]} ELSE {})

\* ------------------------------------------------------------------ json.loads

\* A JSON value is [t, v]: t is "str" (v the text), "num" (v a natural number),
\* "arr" (v the sequence of values), "obj" (v the sequence of [k, v] members),
\* "bool" (v a BOOLEAN) or "null".
JNull == [t |-> "null", v |-> 0]

JStr(s) == [t |-> "str", v |-> s]

Falha == [ok |-> FALSE, v |-> JNull, p |-> 0]

Ok(v, p) == [ok |-> TRUE, v |-> v, p |-> p]

RECURSIVE SkipWs(_, _)
SkipWs(s, p) == IF p <= Len(s) /\ s[p] \in {" ", "\t", "\n", "\r"} THEN SkipWs(s, p + 1) ELSE p

StartsWith(s, p, lit) == p + Len(lit) - 1 <= Len(s) /\ SubSeq(s, p, p + Len(lit) - 1) = lit

EhDigito(c) == \E i \in 1..Len(Digitos) : Digitos[i] = c

ValorDigito(c) == (CHOOSE i \in 1..Len(Digitos) : Digitos[i] = c) - 1

EhHex(c) == EhDigito(c) \/ LowerChar(c) \in {"a", "b", "c", "d", "e", "f"}

\* The character a \uXXXX escape stands for.
DeHex(h) == IF Lower(h) = <<"0", "0", "e", "1">> THEN "U+00E1" ELSE "U+????"

RECURSIVE PStr(_, _, _)
\* The rest of a string whose opening quote was read; acc is the text so far.
PStr(s, p, acc) ==
    IF p > Len(s) THEN Falha
    ELSE IF s[p] = "\"" THEN Ok(JStr(acc), p + 1)
    ELSE IF s[p] \in {"\n", "\r", "\t"} THEN Falha
    ELSE IF s[p] # "\\" THEN PStr(s, p + 1, Append(acc, s[p]))
    ELSE IF p + 1 > Len(s) THEN Falha
    ELSE CASE s[p + 1] \in {"\"", "\\", "/"} -> PStr(s, p + 2, Append(acc, s[p + 1]))
           [] s[p + 1] = "n" -> PStr(s, p + 2, Append(acc, "\n"))
           [] s[p + 1] = "r" -> PStr(s, p + 2, Append(acc, "\r"))
           [] s[p + 1] = "t" -> PStr(s, p + 2, Append(acc, "\t"))
           [] s[p + 1] = "u" -> IF p + 5 <= Len(s) /\ \A i \in (p + 2)..(p + 5) : EhHex(s[i])
                                THEN PStr(s, p + 6, Append(acc, DeHex(SubSeq(s, p + 2, p + 5))))
                                ELSE Falha
           [] OTHER -> Falha

RECURSIVE PNum(_, _, _)
\* A number (the integers without sign are the ones read here).
PNum(s, p, n) == IF p <= Len(s) /\ EhDigito(s[p]) THEN PNum(s, p + 1, 10 * n + ValorDigito(s[p])) ELSE Ok([t |-> "num", v |-> n], p)

RECURSIVE ParseValue(_, _)
RECURSIVE PArr(_, _, _)
RECURSIVE PObj(_, _, _)
ParseValue(s, p0) ==
    LET p == SkipWs(s, p0)
    IN IF p > Len(s) THEN Falha
       ELSE CASE s[p] = "\"" -> PStr(s, p + 1, <<>>)
              [] s[p] = "[" -> LET q == SkipWs(s, p + 1)
                               IN IF q <= Len(s) /\ s[q] = "]" THEN Ok([t |-> "arr", v |-> <<>>], q + 1) ELSE PArr(s, p + 1, <<>>)
              [] s[p] = "{" -> LET q == SkipWs(s, p + 1)
                               IN IF q <= Len(s) /\ s[q] = "}" THEN Ok([t |-> "obj", v |-> <<>>], q + 1) ELSE PObj(s, p + 1, <<>>)
              [] s[p] = "0" -> Ok([t |-> "num", v |-> 0], p + 1)
              [] EhDigito(s[p]) /\ s[p] # "0" -> PNum(s, p, 0)
              [] StartsWith(s, p, <<"n", "u", "l", "l">>) -> Ok(JNull, p + 4)
              [] StartsWith(s, p, <<"t", "r", "u", "e">>) -> Ok([t |-> "bool", v |-> TRUE], p + 4)
              [] StartsWith(s, p, <<"f", "a", "l", "s", "e">>) -> Ok([t |-> "bool", v |-> FALSE], p + 5)
              [] OTHER -> Falha

\* The elements of an array after "[": value ("," value)* "]".
PArr(s, p, acc) ==
    LET r == ParseValue(s, p)
        q == SkipWs(s, r.p)
    IN IF ~r.ok THEN Falha
       ELSE IF q > Len(s) THEN Falha
       ELSE IF s[q] = "," THEN PArr(s, q + 1, Append(acc, r.v))
       ELSE IF s[q] = "]" THEN Ok([t |-> "arr", v |-> Append(acc, r.v)], q + 1)
       ELSE Falha

\* The members of an object after "{": string ":" value ("," ...)* "}".
PObj(s, p, acc) ==
    LET q == SkipWs(s, p)
        k == IF q <= Len(s) /\ s[q] = "\"" THEN PStr(s, q + 1, <<>>) ELSE Falha
        c == SkipWs(s, k.p)
        r == IF k.ok /\ c <= Len(s) /\ s[c] = ":" THEN ParseValue(s, c + 1) ELSE Falha
        e == SkipWs(s, r.p)
    IN IF ~r.ok THEN Falha
       ELSE IF e > Len(s) THEN Falha
       ELSE IF s[e] = "," THEN PObj(s, e + 1, Append(acc, [k |-> k.v.v, v |-> r.v]))
       ELSE IF s[e] = "}" THEN Ok([t |-> "obj", v |-> Append(acc, [k |-> k.v.v, v |-> r.v])], e + 1)
       ELSE Falha

\* json.loads(s): ok is FALSE where Python raises json.JSONDecodeError.
JsonLoads(s) ==
    LET r == ParseValue(s, 1)
    IN IF r.ok /\ SkipWs(s, r.p) > Len(s) THEN r ELSE Falha

\* ------------------------------------------------------------------ Python values

\* bool(v), as "if not respostas_por_idade" takes it.
Truthy(v) ==
    CASE v.t \in {"str", "arr", "obj"} -> v.v # <<>>
      [] v.t = "num" -> v.v # 0
      [] v.t = "bool" -> v.v
      [] OTHER -> FALSE

\* dict.get(chave, padrao) on an "obj" value: the last member of that key wins.
DictGet(o, chave, padrao) ==
    LET I == {i \in 1..Len(o.v) : o.v[i].k = chave}
    IN IF I = {} THEN padrao ELSE o.v[CHOOSE i \in I : \A j \in I : j <= i].v

RECURSIVE PyRepr(_)
\* repr(v); of a text without quotes or backslashes, the text in single quotes.
PyRepr(v) ==
    CASE v.t = "str" -> <<"'">> \o v.v \o <<"'">>
      [] v.t = "num" -> IntToStr(v.v)
      [] v.t = "bool" -> IF v.v THEN <<"T", "r", "u", "e">> ELSE <<"F", "a", "l", "s", "e">>
      [] v.t = "arr" -> <<"[">> \o Join(<<",", " ">>, [i \in 1..Len(v.v) |-> PyRepr(v.v[i])]) \o <<"]">>
      [] v.t = "obj" -> <<"{">> \o Join(<<",", " ">>, [i \in 1..Len(v.v) |-> <<"'">> \o v.v[i].k \o <<"'", ":", " ">> \o PyRepr(v.v[i].v)]) \o <<"}">>
      [] OTHER -> <<"N", "o", "n", "e">>

\* str(v)
PyStr(v) == IF v.t = "str" THEN v.v ELSE PyRepr(v)

\* ------------------------------------------------------------------ the table

CABECALHO == <<"|", " ", "I", "d", "a", "d", "e", " ", " ", " ", " ", "|", " ", "R", "e", "s", "p", "o", "s", "t", "a", " ", "C", "o", "r", "r", "e", "s", "p", "o", "n", "d", "e", "n", "t", "e", " ", "|">>

SEPARADOR == <<"|", " ", ":", "-", "-", "-", "-", "-", "-", "-", " ", "|", " ", ":", "-", "-", "-", "-", "-", "-", "-", "-", "-", "-", "-", "-", "-", "-", "-", "-", "-", "-", "-", "-", "-", "-", " ", "|">>

SEM_RESPOSTA == <<"|", " ", "N", "/", "A", " ", " ", " ", " ", " ", " ", "|", " ", "N", "e", "n", "h", "u", "m", "a", " ", "r", "e", "s", "p", "o", "s", "t", "a", " ", "e", "n", "c", "o", "n", "t", "r", "a", "d", "a", " ", "|">>

\* s.replace("|", "\\|")
EscapePipe(s) == Concat([i \in 1..Len(s) |-> IF s[i] = "|" THEN <<"\\", "|">> ELSE <<s[i]>>])

\* f"| {idade_esc} | {resp_esc} |" of one item of the list
LinhaTabela(item) ==
    <<"|", " ">> \o EscapePipe(PyStr(DictGet(item, <<"i", "d", "a", "d", "e">>, JStr(NA))))
    \o <<" ", "|", " ">> \o EscapePipe(PyStr(DictGet(item, <<"r", "e", "s", "p", "o", "s", "t", "a">>, JStr(NA)))) \o <<" ", "|">>

\* The lines of markdown_table for the deserialized value v.
LinhasTabela(v) ==
    IF ~Truthy(v) THEN <<CABECALHO, SEPARADOR, SEM_RESPOSTA>>
    ELSE <<CABECALHO, SEPARADOR>> \o [i \in 1..Len(v.v) |-> LinhaTabela(v.v[i])]

\* The loop body raises (AttributeError on item.get, TypeError on the iteration)
\* when the value is truthy and is not a list of dicts.
Levanta(v) == Truthy(v) /\ (v.t # "arr" \/ \E i \in 1..Len(v.v) : v.v[i].t # "obj")

\* metadata.get(chave, padrao) on a metadata dict
MetaGet(m, chave, padrao) == IF \E i \in 1..Len(m) : m[i].k = chave THEN m[CHOOSE i \in 1..Len(m) : m[i].k = chave].v ELSE padrao

\* json.loads of the stored text, [] on json.JSONDecodeError
RespostasDe(metadata) ==
    LET r == JsonLoads(MetaGet(metadata, "respostas_por_idade_json", <<"[", "]">>))
    IN IF r.ok THEN r.v ELSE [t |-> "arr", v |-> <<>>]

\* One match of the query: whether building its table raises, and the tuple
\* (pergunta_base, tabela_final, distancia) appended to resultados.
Match(item, distancia) ==
    [levanta |-> Levanta(RespostasDe(item.metadata)),
     pergunta_base |-> item.documento,
     tabela |-> IF Levanta(RespostasDe(item.metadata)) THEN <<>> ELSE Join(<<"\n">>, LinhasTabela(RespostasDe(item.metadata))),
     distancia |-> distancia]

\* ------------------------------------------------------------------ inputs

RECURSIVE SeqsAte(_, _)
\* The sequences over S of length 0..n.
SeqsAte(S, n) == IF n = 0 THEN {<<>>} ELSE SeqsAte(S, n - 1) \cup {Append(q, x) : q \in {r \in SeqsAte(S, n - 1) : Len(r) = n - 1}, x \in S}

Xlsx(linhas) == [existe |-> TRUE, ncols |-> 3, linhas |-> linhas]

\* Question cells: empty, "q", " q" (the same question once trimmed), "p",
\* a cell of one space, and the text "NAN".
CelulasPergunta == {NaN, Txt(<<"q">>), Txt(<<" ", "q">>), Txt(<<"p">>), Txt(<<" ">>), Txt(<<"N", "A", "N">>)}

\* (age, answer) cells of a row: both empty; an age to trim with an answer of
\* one space.
CelulasIdadeResposta == {<<NaN, NaN>>, <<Txt(<<" ", "1">>), Txt(<<" ">>)>>}

LinhasRicas == {<<q, ir[1], ir[2]>> : q \in CelulasPergunta, ir \in CelulasIdadeResposta}

\* The spreadsheets of the grouping specification.
PlanilhasRicas == {Xlsx(l) : l \in SeqsAte(LinhasRicas, MaxLinhas)}

LinhasLoja == {<<Txt(<<"q">>), Txt(<<"1">>), Txt(<<"r">>)>>, <<NaN, NaN, Txt(<<"a", "|", "b">>)>>, <<Txt(<<"p", " ">>), Txt(<<" ">>), Txt(<<"U+00E1">>)>>}

\* The files of the store specification: spreadsheets of three columns, a missing
\* file, a spreadsheet of two columns and one of four.
ArquivosLoja ==
    {Xlsx(l) : l \in SeqsAte(LinhasLoja, MaxLinhasLoja)}
    \cup {[existe |-> FALSE, ncols |-> 0, linhas |-> <<>>],
          [existe |-> TRUE, ncols |-> 2, linhas |-> <<<<Txt(<<"q">>), Txt(<<"1">>)>>>>],
          [existe |-> TRUE, ncols |-> 4, linhas |-> <<<<Txt(<<"q">>), Txt(<<"1">>), Txt(<<"r">>), Txt(<<"x">>)>>>>]}

\* (age, answer) cells whose texts reach the table: a pipe inside the answer, a
\* pipe as the whole age, and an answer of two lines (a line break typed inside
\* the cell) under an empty age.
CelulasTabela == {<<Txt(<<"1">>), Txt(<<"a", " ", "|", " ", "b">>)>>, <<Txt(<<"|">>), Txt(<<"r">>)>>, <<NaN, Txt(<<"x", "\n", "y">>)>>}

LinhasTabelaXlsx == {<<q, ir[1], ir[2]>> : q \in {Txt(<<"q">>), NaN, Txt(<<"p">>)}, ir \in CelulasTabela}

\* The spreadsheets of the table specification.
PlanilhasTabela == {Xlsx(l) : l \in SeqsAte(LinhasTabelaXlsx, MaxLinhasLoja)}

\* ------------------------------------------------------------------ state

ConsultaOciosa == [estado |-> "idle", n |-> 0, falhou |-> FALSE, ids |-> <<>>, resultados |-> <<>>]

InitComum ==
    /\ dirExiste = FALSE
    /\ colecao = SemColecao
    /\ pc = [b \in Construtores |-> "idle"]
    /\ forcar = [b \in Construtores |-> FALSE]
    /\ df = [b \in Construtores |-> <<>>]
    /\ agrupadas = [b \in Construtores |-> <<>>]
    /\ ret = [b \in Construtores |-> "nenhum"]
    /\ efeitos = [b \in Construtores |-> {}]
    /\ colAntes = [b \in Construtores |-> SemColecao]
    /\ consulta = ConsultaOciosa

Init == planilha \in ArquivosLoja /\ InitComum

InitAgrupar == planilha \in PlanilhasRicas /\ InitComum

InitTabela == planilha \in PlanilhasTabela /\ InitComum

\* No call is in progress (the single-threaded, one-writer use of the module).
Livre == (\A b \in Construtores : pc[b] = "idle") /\ consulta.estado = "idle"

\* ------------------------------------------------------------------ the build

\* The call of garantir_banco_vetorial_de_xlsx(..., forcar_reconstrucao = f).
Chamar(b, f) ==
    /\ pc[b] = "idle"
    /\ pc' = [pc EXCEPT ![b] = "inicio"]
    /\ forcar' = [forcar EXCEPT ![b] = f]
    /\ colAntes' = [colAntes EXCEPT ![b] = colecao]
    /\ UNCHANGED <<planilha, dirExiste, colecao, df, agrupadas, ret, efeitos, consulta>>

\* os.makedirs when the directory is absent, PersistentClient, embedding function.
Preparar(b) ==
    /\ pc[b] = "inicio"
    /\ dirExiste' = TRUE
    /\ pc' = [pc EXCEPT ![b] = IF forcar[b] THEN "apagar" ELSE "obter"]
    /\ UNCHANGED <<planilha, colecao, forcar, df, agrupadas, ret, efeitos, colAntes, consulta>>

NuncaEncontrada(col) == FALSE
\* client.get_collection(name) succeeds: the collection exists.
Encontrada(col) == col.existe

\* not forcar_reconstrucao: client.get_collection, returned when it exists.
ObterExistente(b) ==
    /\ pc[b] = "obter"
    /\ IF Encontrada(colecao)
       THEN pc' = [pc EXCEPT ![b] = "retornou"] /\ ret' = [ret EXCEPT ![b] = "colecao"]
       ELSE pc' = [pc EXCEPT ![b] = "ler"] /\ ret' = ret
    /\ UNCHANGED <<planilha, dirExiste, colecao, forcar, df, agrupadas, efeitos, colAntes, consulta>>

NaoApagar(col) == col
\* client.delete_collection(name): the store without the collection.
Apagada(col) == SemColecao

\* forcar_reconstrucao: get_collection then delete_collection, the exception of a
\* collection that does not exist swallowed.
ApagarAntiga(b) ==
    /\ pc[b] = "apagar"
    /\ IF colecao.existe
       THEN colecao' = Apagada(colecao) /\ efeitos' = [efeitos EXCEPT ![b] = @ \cup {"apagou"}]
       ELSE colecao' = colecao /\ efeitos' = efeitos
    /\ pc' = [pc EXCEPT ![b] = "ler"]
    /\ UNCHANGED <<planilha, dirExiste, forcar, df, agrupadas, ret, colAntes, consulta>>

NuncaSemPerguntas(d) == FALSE
\* not perguntas_agrupadas: the grouping kept no question.
SemPerguntas(d) == d = <<>>

LerEAgruparEmbaralhando(b) ==
    /\ pc[b] = "ler"
    /\ LET r == LerExcel(planilha)
           d == Agrupar(r.linhas)
       IN /\ efeitos' = [efeitos EXCEPT ![b] = @ \cup (IF r.erro = "" THEN {"leu", "agrupou"} ELSE {"leu", r.erro})]
          /\ IF r.erro # ""
             THEN /\ pc' = [pc EXCEPT ![b] = "retornou"]
                  /\ ret' = [ret EXCEPT ![b] = "None"]
                  /\ UNCHANGED <<df, agrupadas>>
             ELSE /\ df' = [df EXCEPT ![b] = r.linhas]
                  /\ \E o \in {f \in [1..Len(d) -> 1..Len(d)] : \A i, j \in 1..Len(d) : i # j => f[i] # f[j]} :
                        agrupadas' = [agrupadas EXCEPT ![b] = [i \in 1..Len(d) |-> d[o[i]]]]
                  /\ IF SemPerguntas(d)
                     THEN pc' = [pc EXCEPT ![b] = "retornou"] /\ ret' = [ret EXCEPT ![b] = "None"]
                     ELSE pc' = [pc EXCEPT ![b] = "criar"] /\ ret' = ret
    /\ UNCHANGED <<planilha, dirExiste, colecao, forcar, colAntes, consulta>>
\* read_excel, the column check, the forward fill and the grouping loop; None
\* when the file cannot be read, has fewer than 3 columns or groups to nothing.
LerEAgrupar(b) ==
    /\ pc[b] = "ler"
    /\ LET r == LerExcel(planilha)
       IN /\ efeitos' = [efeitos EXCEPT ![b] = @ \cup (IF r.erro = "" THEN {"leu", "agrupou"} ELSE {"leu", r.erro})]
          /\ IF r.erro # ""
             THEN /\ pc' = [pc EXCEPT ![b] = "retornou"]
                  /\ ret' = [ret EXCEPT ![b] = "None"]
                  /\ UNCHANGED <<df, agrupadas>>
             ELSE /\ df' = [df EXCEPT ![b] = r.linhas]
                  /\ agrupadas' = [agrupadas EXCEPT ![b] = Agrupar(r.linhas)]
                  /\ IF SemPerguntas(Agrupar(r.linhas))
                     THEN pc' = [pc EXCEPT ![b] = "retornou"] /\ ret' = [ret EXCEPT ![b] = "None"]
                     ELSE pc' = [pc EXCEPT ![b] = "criar"] /\ ret' = ret
    /\ UNCHANGED <<planilha, dirExiste, colecao, forcar, colAntes, consulta>>

CriarSemRecuperar(b) ==
    /\ pc[b] = "criar"
    /\ IF colecao.existe
       THEN /\ colecao' = colecao
            /\ efeitos' = [efeitos EXCEPT ![b] = @ \cup {"duplicada"}]
            /\ pc' = [pc EXCEPT ![b] = "retornou"]
            /\ ret' = [ret EXCEPT ![b] = "None"]
       ELSE /\ colecao' = [existe |-> TRUE, itens |-> <<>>]
            /\ efeitos' = [efeitos EXCEPT ![b] = @ \cup {"criou"}]
            /\ pc' = [pc EXCEPT ![b] = "adicionar"]
            /\ ret' = ret
    /\ UNCHANGED <<planilha, dirExiste, forcar, df, agrupadas, colAntes, consulta>>
\* client.create_collection; on DuplicateCollectionException (the collection is
\* there already), get_collection, and the call goes on with that collection.
Criar(b) ==
    /\ pc[b] = "criar"
    /\ IF colecao.existe
       THEN colecao' = colecao /\ efeitos' = [efeitos EXCEPT ![b] = @ \cup {"duplicada"}]
       ELSE colecao' = [existe |-> TRUE, itens |-> <<>>] /\ efeitos' = [efeitos EXCEPT ![b] = @ \cup {"criou"}]
    /\ pc' = [pc EXCEPT ![b] = "adicionar"]
    /\ UNCHANGED <<planilha, dirExiste, forcar, df, agrupadas, ret, colAntes, consulta>>

RetornoSempreColecao(ok) == "colecao"
\* What the call returns after collection.add: the collection, or None from
\* the except branch, which prints the error and does nothing else.
RetornoDoAdd(ok) == IF ok THEN "colecao" ELSE "None"

\* The loop that prepares ids, documents and metadatas, then collection.add:
\* the collection is returned when the add succeeds, None when it raises or
\* when there is no document.
Adicionar(b) ==
    /\ pc[b] = "adicionar"
    /\ IF Entradas(agrupadas[b]) = <<>>
       THEN colecao' = colecao /\ efeitos' = efeitos /\ ret' = [ret EXCEPT ![b] = "None"]
       ELSE \E r \in ResultadosAdd(colecao, Entradas(agrupadas[b])) :
              /\ colecao' = [colecao EXCEPT !.itens = r.itens]
              /\ efeitos' = [efeitos EXCEPT ![b] = @ \cup (IF r.ok THEN {"adicionou"} ELSE {"adicionou", "falhou"})]
              /\ ret' = [ret EXCEPT ![b] = RetornoDoAdd(r.ok)]
    /\ pc' = [pc EXCEPT ![b] = "retornou"]
    /\ UNCHANGED <<planilha, dirExiste, forcar, df, agrupadas, colAntes, consulta>>

\* The caller takes the returned value; the locals of the call are gone.
Encerrar(b) ==
    /\ pc[b] = "retornou"
    /\ pc' = [pc EXCEPT ![b] = "idle"]
    /\ forcar' = [forcar EXCEPT ![b] = FALSE]
    /\ df' = [df EXCEPT ![b] = <<>>]
    /\ agrupadas' = [agrupadas EXCEPT ![b] = <<>>]
    /\ ret' = [ret EXCEPT ![b] = "nenhum"]
    /\ efeitos' = [efeitos EXCEPT ![b] = {}]
    /\ colAntes' = [colAntes EXCEPT ![b] = SemColecao]
    /\ UNCHANGED <<planilha, dirExiste, colecao, consulta>>

\* ------------------------------------------------------------------ the query

\* The answers collection.query may give for n_results = n when the stored
\* entries lie at the distances dist: the indices of min(n, count) entries,
\* nearest first, no entry left out being nearer than one returned.
Ordens(dist, n) ==
    LET total == Len(dist)
        m == IF n < total THEN n ELSE total
    IN {o \in [1..m -> 1..total] :
          /\ \A i, j \in 1..m : i # j => o[i] # o[j]
          /\ \A i, j \in 1..m : i < j => dist[o[i]] <= dist[o[j]]
          /\ \A k \in 1..total : (\A i \in 1..m : o[i] # k) => \A i \in 1..m : dist[o[i]] <= dist[k]}

MatchesInvertidos(itens, dist, o) == [i \in 1..Len(o) |-> Match(itens[o[Len(o) + 1 - i]], dist[o[Len(o) + 1 - i]])]
\* The loop over range(len(query_results["ids"][0])): one Match per id, in the
\* order of the store's answer.
Matches(itens, dist, o) == [i \in 1..Len(o) |-> Match(itens[o[i]], dist[o[i]])]

Retorno(n, ids, ms) ==
    IF \E i \in 1..Len(ms) : ms[i].levanta
    THEN [estado |-> "excecao", n |-> n, falhou |-> FALSE, ids |-> ids, resultados |-> <<>>]
    ELSE [estado |-> "retornou", n |-> n, falhou |-> FALSE, ids |-> ids, resultados |-> [i \in 1..Len(ms) |-> [pergunta_base |-> ms[i].pergunta_base, tabela |-> ms[i].tabela, distancia |-> ms[i].distancia]]]

BuscarCriando(n) ==
    /\ consulta.estado = "idle"
    /\ IF ~dirExiste
       THEN consulta' = [estado |-> "retornou", n |-> n, falhou |-> FALSE, ids |-> <<>>, resultados |-> <<>>] /\ colecao' = colecao
       ELSE IF ~colecao.existe
       THEN consulta' = [estado |-> "retornou", n |-> n, falhou |-> FALSE, ids |-> <<>>, resultados |-> <<>>] /\ colecao' = [existe |-> TRUE, itens |-> <<>>]
       ELSE /\ colecao' = colecao
            /\ \E falha \in BOOLEAN, dist \in [1..Len(colecao.itens) -> 0..MaxDist] :
                  IF falha
                  THEN consulta' = [estado |-> "retornou", n |-> n, falhou |-> TRUE, ids |-> <<>>, resultados |-> <<>>]
                  ELSE \E o \in Ordens(dist, n) :
                         consulta' = Retorno(n, [i \in 1..Len(o) |-> colecao.itens[o[i]].id], Matches(colecao.itens, dist, o))
    /\ UNCHANGED <<planilha, dirExiste, pc, forcar, df, agrupadas, ret, efeitos, colAntes>>
\* buscar_perguntas_no_banco(pergunta_usuario, n_results = n).  The text of the
\* question acts through the distances its embedding has to the stored ones:
\* dist, any vector of distances.  falha: collection.query raises (falhou
\* records it).
Buscar(n) ==
    /\ consulta.estado = "idle"
    /\ IF ~dirExiste \/ ~colecao.existe
       THEN consulta' = [estado |-> "retornou", n |-> n, falhou |-> FALSE, ids |-> <<>>, resultados |-> <<>>]
       ELSE \E falha \in BOOLEAN, dist \in [1..Len(colecao.itens) -> 0..MaxDist] :
              IF falha
              THEN consulta' = [estado |-> "retornou", n |-> n, falhou |-> TRUE, ids |-> <<>>, resultados |-> <<>>]
              ELSE \E o \in Ordens(dist, n) :
                     consulta' = Retorno(n, [i \in 1..Len(o) |-> colecao.itens[o[i]].id], Matches(colecao.itens, dist, o))
    /\ UNCHANGED <<planilha, dirExiste, colecao, pc, forcar, df, agrupadas, ret, efeitos, colAntes>>

\* The caller takes the result of the query.
Consumir ==
    /\ consulta.estado # "idle"
    /\ consulta' = ConsultaOciosa
    /\ UNCHANGED <<planilha, dirExiste, colecao, pc, forcar, df, agrupadas, ret, efeitos, colAntes>>

\* ------------------------------------------------------------------ environment

\* The spreadsheet file is replaced, removed or rewritten between calls.
EditarPlanilha(a) ==
    /\ planilha' = a
    /\ planilha # a
    /\ UNCHANGED <<dirExiste, colecao, pc, forcar, df, agrupadas, ret, efeitos, colAntes, consulta>>

\* Metadata texts that json.dumps of a list of answers never writes: not JSON at
\* all, JSON of another shape, an empty text.
TextosMalformados == {<<"[", "{">>, <<>>, <<"[", "1", "]">>, <<"{", "\"", "a", "\"", ":", " ", "1", "}">>, <<"{", "}">>}

\* The store is rewritten from outside the module: the answers text of one entry
\* is replaced by a malformed one.
Corromper(i, t) ==
    /\ colecao.existe
    /\ i \in 1..Len(colecao.itens)
    /\ colecao' = [colecao EXCEPT !.itens[i].metadata = Metadados(colecao.itens[i].documento, t)]
    /\ colecao' # colecao
    /\ UNCHANGED <<planilha, dirExiste, pc, forcar, df, agrupadas, ret, efeitos, colAntes, consulta>>

\* ------------------------------------------------------------------ specifications

\* One call at a time: builds and queries of a single-threaded caller, the
\* spreadsheet edited between calls.
Next ==
    \/ \E b \in Construtores, f \in BOOLEAN : Livre /\ Chamar(b, f)
    \/ \E b \in Construtores : Preparar(b)
    \/ \E b \in Construtores : ObterExistente(b)
    \/ \E b \in Construtores : ApagarAntiga(b)
    \/ \E b \in Construtores : LerEAgrupar(b)
    \/ \E b \in Construtores : Criar(b)
    \/ \E b \in Construtores : Adicionar(b)
    \/ \E b \in Construtores : Encerrar(b)
    \/ \E n \in 1..MaxK : Livre /\ Buscar(n)
    \/ Consumir
    \/ \E a \in ArquivosLoja : Livre /\ EditarPlanilha(a)

Spec == Init /\ [][Next]_vars

\* The same, with a store that may be rewritten from outside between calls.
NextCorrompido ==
    \/ Next
    \/ \E i \in 1..MaxLinhasLoja, t \in TextosMalformados : Livre /\ Corromper(i, t)

SpecCorrompido == Init /\ [][NextCorrompido]_vars

\* One first build of each spreadsheet of PlanilhasRicas into an empty store.
NextAgrupar ==
    \/ Chamar("b1", FALSE)
    \/ Preparar("b1")
    \/ ObterExistente("b1")
    \/ LerEAgrupar("b1")
    \/ Criar("b1")
    \/ Adicionar("b1")

SpecAgrupar == InitAgrupar /\ [][NextAgrupar]_vars

\* Builds of one spreadsheet of PlanilhasTabela by one caller, and queries; the
\* store may be rewritten from outside between calls.
NextTabela ==
    \/ \E f \in BOOLEAN : Livre /\ Chamar("b1", f)
    \/ Preparar("b1")
    \/ ObterExistente("b1")
    \/ ApagarAntiga("b1")
    \/ LerEAgrupar("b1")
    \/ Criar("b1")
    \/ Adicionar("b1")
    \/ Encerrar("b1")
    \/ \E n \in 1..MaxK : Livre /\ Buscar(n)
    \/ Consumir
    \/ \E i \in 1..MaxLinhasLoja, t \in TextosMalformados : Livre /\ Corromper(i, t)

SpecTabela == InitTabela /\ [][NextTabela]_vars

\* Two processes load the collection at the same time, as the module-level call
\* (forcar_reconstrucao = False) does when two programs import the module: the
\* steps of the two calls interleave, over one spreadsheet.
NextCorrida ==
    \/ \E b \in Construtores : Chamar(b, FALSE)
    \/ \E b \in Construtores : Preparar(b)
    \/ \E b \in Construtores : ObterExistente(b)
    \/ \E b \in Construtores : LerEAgrupar(b)
    \/ \E b \in Construtores : Criar(b)
    \/ \E b \in Construtores : Adicionar(b)
    \/ \E b \in Construtores : Encerrar(b)

SpecCorrida == Init /\ [][NextCorrida]_vars

\* ------------------------------------------------------------------ properties

\* The call of b has read the spreadsheet and grouped its rows: df[b] are the
\* rows read, agrupadas[b] the mapping.
Agrupou(b) == "agrupou" \in efeitos[b]

\* The row whose question cell fills row j: the nearest row at or above j whose
\* question cell is not empty, 0 when there is none.
LinhaDeOrigem(l, j) ==
    LET S == {i \in 1..j : ~l[i].pergunta.nan}
    IN IF S = {} THEN 0 ELSE CHOOSE i \in S : \A k \in S : k <= i

\* The question row j is grouped under, trimmed ("nan" for a cell nothing fills).
ChaveDaLinha(l, j) == IF LinhaDeOrigem(l, j) = 0 THEN <<"n", "a", "n">> ELSE Strip(l[LinhaDeOrigem(l, j)].pergunta.s)

\* A trimmed question that survives the drop rule.
ChaveValida(p) == p # <<>> /\ Lower(p) # <<"n", "a", "n">>

\* The (ageContext, answer) pair of a row: "N/A" for an empty cell, else the
\* trimmed text.
ParDaLinha(row) == [idade |-> IF row.idade.nan THEN NA ELSE Strip(row.idade.s), resposta |-> IF row.resposta.nan THEN NA ELSE Strip(row.resposta.s)]

\* The rows of l that survive and group under p, in row order.
LinhasDaChave(l, p) == SelectSeq([j \in 1..Len(l) |-> j], LAMBDA j : ChaveDaLinha(l, j) = p /\ ChaveValida(p))

\* The answers expected under p: the pairs of its rows, in row order.
RespostasEsperadas(l, p) == [k \in 1..Len(LinhasDaChave(l, p)) |-> ParDaLinha(l[LinhasDaChave(l, p)[k]])]

\* Rows 1..k of l: a first row with a question, then k - 1 rows with an empty
\* question cell.
BlocoInicial(l, k) == k \in 1..Len(l) /\ ~l[1].pergunta.nan /\ Strip(l[1].pergunta.s) # <<>> /\ \A j \in 2..k : l[j].pergunta.nan

\* The first k rows of l are the first k answers of the first record, which is
\* keyed by row 1's (trimmed) question.
PrimeirasKSobLinha1(l, d, k) ==
    /\ Len(d) >= 1
    /\ d[1].pergunta = Strip(l[1].pergunta.s)
    /\ Len(d[1].respostas) >= k
    /\ \A j \in 1..k : d[1].respostas[j] = ParDaLinha(l[j])

RECURSIVE SomaRespostas(_)
SomaRespostas(d) == IF d = <<>> THEN 0 ELSE Len(Head(d).respostas) + SomaRespostas(Tail(d))

\* C2: a row whose forward-filled question is empty after trimming, or is "nan"
\* in any letter case, contributes to no record (the records' answers are as many
\* as the surviving rows, and every key is a surviving question); every question
\* stored in the index is non-empty and is not "nan".
C2_DropRule ==
    /\ \A b \in Construtores : Agrupou(b) =>
          /\ \A i \in 1..Len(agrupadas[b]) : ChaveValida(agrupadas[b][i].pergunta)
          /\ SomaRespostas(agrupadas[b]) = Cardinality({j \in 1..Len(df[b]) : ChaveValida(ChaveDaLinha(df[b], j))})
    /\ \A i \in 1..Len(colecao.itens) :
          /\ ChaveValida(colecao.itens[i].documento)
          /\ ChaveValida(MetaGet(colecao.itens[i].metadata, "pergunta_original_excel", <<>>))

\* A spreadsheet with a dropped row and a surviving one was indexed.
C2_Witness ==
    \E b \in Construtores :
        /\ Agrupou(b)
        /\ \E j \in 1..Len(df[b]) : ~ChaveValida(ChaveDaLinha(df[b], j)) /\ ~df[b][j].pergunta.nan
        /\ \E j \in 1..Len(df[b]) : ~ChaveValida(ChaveDaLinha(df[b], j)) /\ df[b][j].pergunta.nan
        /\ agrupadas[b] # <<>>
        /\ colecao.itens # <<>>

\* A cell that is empty or holds only white space.
EmBranco(c) == c.nan \/ Strip(c.s) = <<>>

\* C3: age and answer are not forward-filled, a blank or missing age or answer
\* cell is stored as "N/A", and no stored age or answer is empty.
C3_IdadeRespostaNA ==
    \A b \in Construtores : Agrupou(b) =>
        /\ \A i \in 1..Len(agrupadas[b]) : \A a \in 1..Len(agrupadas[b][i].respostas) :
              agrupadas[b][i].respostas[a].idade # <<>> /\ agrupadas[b][i].respostas[a].resposta # <<>>
        /\ \A i \in 1..Len(agrupadas[b]) :
              LET js == LinhasDaChave(df[b], agrupadas[b][i].pergunta)
              IN /\ Len(js) = Len(agrupadas[b][i].respostas)
                 /\ \A a \in 1..Len(js) :
                      /\ EmBranco(df[b][js[a]].idade) => agrupadas[b][i].respostas[a].idade = NA
                      /\ EmBranco(df[b][js[a]].resposta) => agrupadas[b][i].respostas[a].resposta = NA

\* C4: the mapping lists the questions in the order of their first occurrence,
\* each once, and the answers of a question are exactly the pairs of its
\* surviving rows, in row order.
C4_OrdemDoAgrupamento ==
    \A b \in Construtores : Agrupou(b) =>
        LET l == df[b]
            d == agrupadas[b]
        IN /\ \A j \in 1..Len(l) : ChaveValida(ChaveDaLinha(l, j)) => \E i \in 1..Len(d) : d[i].pergunta = ChaveDaLinha(l, j)
           /\ \A i \in 1..Len(d) : LinhasDaChave(l, d[i].pergunta) # <<>>
           /\ \A i, k \in 1..Len(d) : i < k => LinhasDaChave(l, d[i].pergunta)[1] < LinhasDaChave(l, d[k].pergunta)[1]
           /\ \A i \in 1..Len(d) : d[i].respostas = RespostasEsperadas(l, d[i].pergunta)

\* Two questions were grouped, one of them with two answers.
C4_Witness ==
    \E b \in Construtores :
        /\ Agrupou(b)
        /\ Len(agrupadas[b]) >= 2
        /\ \E i \in 1..Len(agrupadas[b]) : Len(agrupadas[b][i].respostas) >= 2

\* The call of b was made with forcar_reconstrucao = f and has not been taken
\* by its caller yet.
EmChamada(b, f) == pc[b] # "idle" /\ forcar[b] = f

\* C5: a call with forcar_reconstrucao = False that finds the collection leaves
\* it as it was at the call (same entries, same count), reads no spreadsheet,
\* creates, deletes and adds nothing, and returns the collection.
C5_CargaIdempotente ==
    \A b \in Construtores : (EmChamada(b, FALSE) /\ colAntes[b].existe) =>
        /\ colecao = colAntes[b]
        /\ efeitos[b] = {}
        /\ pc[b] \in {"inicio", "obter", "retornou"}
        /\ pc[b] = "retornou" => ret[b] = "colecao"

\* A call without forced rebuild returned a collection that held entries.
C5_Witness ==
    \E b \in Construtores :
        /\ EmChamada(b, FALSE)
        /\ pc[b] = "retornou"
        /\ colAntes[b].existe
        /\ Len(colAntes[b].itens) >= 2
        /\ Len(colecao.itens) = Len(colAntes[b].itens)

\* text is the JSON of a list of {"idade", "resposta"} objects whose values are
\* the answers of respostas, in order.
Descreve(text, respostas) ==
    LET r == JsonLoads(text)
    IN /\ r.ok
       /\ r.v.t = "arr"
       /\ Len(r.v.v) = Len(respostas)
       /\ \A k \in 1..Len(respostas) :
            /\ r.v.v[k].t = "obj"
            /\ Len(r.v.v[k].v) = 2
            /\ r.v.v[k].v[1].k = <<"i", "d", "a", "d", "e">>
            /\ r.v.v[k].v[1].v.t = "str"
            /\ r.v.v[k].v[1].v.v = respostas[k].idade
            /\ r.v.v[k].v[2].k = <<"r", "e", "s", "p", "o", "s", "t", "a">>
            /\ r.v.v[k].v[2].v.t = "str"
            /\ r.v.v[k].v[2].v.v = respostas[k].resposta

\* The rows of the spreadsheet file as it is now (no row when it cannot be read).
LinhasAtuais == LerExcel(planilha).linhas

\* The entry is the one of a question of the spreadsheet l: its document is a
\* surviving question of l and its metadata hold that question with its answers.
DerivadaDe(item, l) ==
    /\ LinhasDaChave(l, item.documento) # <<>>
    /\ MetaGet(item.metadata, "pergunta_original_excel", <<>>) = item.documento
    /\ Descreve(MetaGet(item.metadata, "respostas_por_idade_json", <<>>), RespostasEsperadas(l, item.documento))

Construiu(b) == pc[b] = "retornou" /\ ret[b] = "colecao" /\ "adicionou" \in efeitos[b]

\* C7: after a (re)build the i-th record (from 0) is stored under the id
\* "q_excel_<i>", its question as the document, and metadata with the question
\* and the JSON of its answers; one entry per unique question.
C7_EntradasDoIndice ==
    \A b \in Construtores : Construiu(b) =>
        /\ Len(colecao.itens) = Len(agrupadas[b])
        /\ \A i \in 1..Len(colecao.itens) :
              /\ colecao.itens[i].id = <<"q", "_", "e", "x", "c", "e", "l", "_">> \o IntToStr(i - 1)
              /\ colecao.itens[i].documento = agrupadas[b][i].pergunta
              /\ MetaGet(colecao.itens[i].metadata, "pergunta_original_excel", <<>>) = agrupadas[b][i].pergunta
              /\ Descreve(MetaGet(colecao.itens[i].metadata, "respostas_por_idade_json", <<>>), agrupadas[b][i].respostas)
        /\ \A i, k \in 1..Len(colecao.itens) : i # k =>
              colecao.itens[i].id # colecao.itens[k].id /\ colecao.itens[i].documento # colecao.itens[k].documento
        /\ Cardinality({ChaveDaLinha(df[b], j) : j \in {x \in 1..Len(df[b]) : ChaveValida(ChaveDaLinha(df[b], x))}}) = Len(colecao.itens)

\* A forced rebuild of an existing collection stored two questions.
C7_Witness ==
    \E b \in Construtores :
        /\ Construiu(b)
        /\ forcar[b]
        /\ colAntes[b].existe
        /\ Len(colecao.itens) >= 2

\* The stored entry of id x.
ItemDeId(x) == colecao.itens[CHOOSE i \in 1..Len(colecao.itens) : colecao.itens[i].id = x]

\* C8: the query returns an empty list when the directory or the collection is
\* absent, and in every state of the store it returns a list (it never raises).
C8_ConsultaNuncaLevanta ==
    /\ consulta.estado # "excecao"
    /\ (consulta.estado = "retornou" /\ (~dirExiste \/ ~colecao.existe)) => consulta.resultados = <<>>

\* C9: the query returns at most n_results matches, nearest first, one per
\* match of the store and in the store's order.
C9_FormaDoResultado ==
    consulta.estado = "retornou" =>
        /\ Len(consulta.resultados) <= consulta.n
        /\ Len(consulta.resultados) <= Len(colecao.itens)
        /\ \A i, j \in 1..Len(consulta.resultados) : i < j => consulta.resultados[i].distancia <= consulta.resultados[j].distancia
        /\ Len(consulta.resultados) \in {0, Len(consulta.ids)}
        /\ \A i \in 1..Len(consulta.resultados) : consulta.resultados[i].pergunta_base = ItemDeId(consulta.ids[i]).documento

\* A query returned two matches at different distances.
C9_Witness ==
    /\ consulta.estado = "retornou"
    /\ Len(consulta.resultados) >= 2
    /\ consulta.resultados[1].distancia < consulta.resultados[2].distancia
    /\ consulta.resultados[1].pergunta_base # consulta.resultados[2].pergunta_base

\* The stored answers text is not the JSON of a list of objects.
Malformado(item) ==
    LET r == JsonLoads(MetaGet(item.metadata, "respostas_por_idade_json", <<"[", "]">>))
    IN ~r.ok \/ r.v.t # "arr" \/ \E k \in 1..Len(r.v.v) : r.v.v[k].t # "obj"

\* The table of a match without answers.
TabelaSemRespostas == CABECALHO \o <<"\n">> \o SEPARADOR \o <<"\n">> \o SEM_RESPOSTA

\* The number of lines of a text.
NumLinhas(t) == 1 + Cardinality({i \in 1..Len(t) : t[i] = "\n"})

\* C10: the query does not fail when the answers metadata of a match is
\* malformed; that match is returned with the table of no answers, and every
\* other match with one table row per stored answer.
C10_DegradacaoPorMatch ==
    /\ consulta.estado # "excecao"
    /\ consulta.estado = "retornou" =>
          \A i \in 1..Len(consulta.resultados) :
              LET item == ItemDeId(consulta.ids[i])
              IN /\ consulta.resultados[i].pergunta_base = item.documento
                 /\ Malformado(item) => consulta.resultados[i].tabela = TabelaSemRespostas
                 /\ ~Malformado(item) =>
                      NumLinhas(consulta.resultados[i].tabela) = IF JsonLoads(MetaGet(item.metadata, "respostas_por_idade_json", <<"[", "]">>)).v.v = <<>> THEN 3 ELSE 2 + Len(JsonLoads(MetaGet(item.metadata, "respostas_por_idade_json", <<"[", "]">>)).v.v)

\* ------------------------------------------------------------------ the rendered table

\* The lines of a text: the pieces between its line breaks.
LinhasDoTexto(t) ==
    LET quebras == {i \in 1..Len(t) : t[i] = "\n"}
        inicios == {1} \cup {i + 1 : i \in quebras}
        ordenados == [k \in 1..Cardinality(inicios) |-> CHOOSE i \in inicios : Cardinality({x \in inicios : x < i}) = k - 1]
        fim(i) == IF \E q \in quebras : q >= i THEN (CHOOSE q \in quebras : q >= i /\ \A r \in quebras : r >= i => q <= r) - 1 ELSE Len(t)
    IN [k \in 1..Cardinality(inicios) |-> SubSeq(t, ordenados[k], fim(ordenados[k]))]

\* The positions of the pipes of a line that no backslash precedes: the column
\* separators of a table row.
PipesLivres(l) == {i \in 1..Len(l) : l[i] = "|" /\ (i = 1 \/ l[i - 1] # "\\")}

\* The text with every "\|" put back to "|": the backslashes that a pipe
\* follows are taken out.
Unescape(s) ==
    LET tira == {i \in 1..Len(s) : s[i] = "\\" /\ i < Len(s) /\ s[i + 1] = "|"}
        fica == SelectSeq([i \in 1..Len(s) |-> i], LAMBDA i : i \notin tira)
    IN [k \in 1..Len(fica) |-> s[fica[k]]]

\* A cell without the one space that pads it on each side.
SemMargem(c) == IF Len(c) >= 2 /\ c[1] = " " /\ c[Len(c)] = " " THEN SubSeq(c, 2, Len(c) - 1) ELSE c

\* The line is a row of two columns: it starts and ends with a separator and
\* has one more between them.
LinhaDeDuasColunas(l) == Cardinality(PipesLivres(l)) = 3 /\ 1 \in PipesLivres(l) /\ Len(l) \in PipesLivres(l)

\* The (ageContext, answer) pair a row of two columns reads as.
ParDaLinhaDaTabela(l) ==
    LET m == CHOOSE i \in PipesLivres(l) : i # 1 /\ i # Len(l)
    IN [idade |-> Unescape(SemMargem(SubSeq(l, 2, m - 1))), resposta |-> Unescape(SemMargem(SubSeq(l, m + 1, Len(l) - 1)))]

\* The value is a list of AnswerEntry: a list of objects that hold a text under
\* "idade" and a text under "resposta".
ListaDeRespostas(v) ==
    /\ v.t = "arr"
    /\ \A k \in 1..Len(v.v) :
          /\ v.v[k].t = "obj"
          /\ DictGet(v.v[k], <<"i", "d", "a", "d", "e">>, JNull).t = "str"
          /\ DictGet(v.v[k], <<"r", "e", "s", "p", "o", "s", "t", "a">>, JNull).t = "str"

\* The pair of the k-th AnswerEntry of the list v.
ParDaResposta(v, k) == [idade |-> DictGet(v.v[k], <<"i", "d", "a", "d", "e">>, JNull).v, resposta |-> DictGet(v.v[k], <<"r", "e", "s", "p", "o", "s", "t", "a">>, JNull).v]

\* The list of answers the table of the i-th match was rendered from.
RespostasDoMatch(i) == RespostasDe(ItemDeId(consulta.ids[i]).metadata)

\* C11: the table of a non-empty list of AnswerEntry is the two header lines
\* followed by exactly one row per entry, in input order, the entry's age
\* context in the first column and its answer in the second.
C11_LinhasPorResposta ==
    consulta.estado = "retornou" =>
        \A i \in 1..Len(consulta.resultados) :
            LET v == RespostasDoMatch(i)
                ls == LinhasDoTexto(consulta.resultados[i].tabela)
            IN (ListaDeRespostas(v) /\ v.v # <<>>) =>
                  /\ Len(ls) = 2 + Len(v.v)
                  /\ ls[1] = CABECALHO
                  /\ ls[2] = SEPARADOR
                  /\ \A k \in 1..Len(v.v) : LinhaDeDuasColunas(ls[2 + k]) /\ ParDaLinhaDaTabela(ls[2 + k]) = ParDaResposta(v, k)

\* The text t holds the text parte somewhere inside it.
Contem(t, parte) == \E i \in 1..(Len(t) - Len(parte) + 1) : SubSeq(t, i, i + Len(parte) - 1) = parte

\* The pipes of a text that a backslash precedes.
PipesEscapados(t) == Cardinality({i \in 2..Len(t) : t[i] = "|" /\ t[i - 1] = "\\"})

\* The pipes of the values of the list of answers v.
PipesDosValores(v) ==
    LET n(s) == Cardinality({i \in 1..Len(s) : s[i] = "|"})
        total[k \in 0..Len(v.v)] == IF k = 0 THEN 0 ELSE total[k - 1] + n(ParDaResposta(v, k).idade) + n(ParDaResposta(v, k).resposta)
    IN total[Len(v.v)]

\* C12: every "|" of an age or answer value is written "\|" in the table (a
\* pipe is escaped when a backslash comes right before it), so every data row
\* has exactly three unescaped pipes, two columns, whatever the values hold; an
\* answer "a | b" is written "a \| b".
C12_EscapeDePipes ==
    consulta.estado = "retornou" =>
        \A i \in 1..Len(consulta.resultados) :
            LET v == RespostasDoMatch(i)
                ls == LinhasDoTexto(consulta.resultados[i].tabela)
            IN (ListaDeRespostas(v) /\ v.v # <<>>) =>
                  /\ PipesEscapados(consulta.resultados[i].tabela) = PipesDosValores(v)
                  /\ \A k \in 3..Len(ls) : LinhaDeDuasColunas(ls[k])
                  /\ (\E k \in 1..Len(v.v) : ParDaResposta(v, k).resposta = <<"a", " ", "|", " ", "b">>) =>
                        Contem(consulta.resultados[i].tabela, <<"|", " ", "a", " ", "\\", "|", " ", "b", " ", "|">>)

\* The data rows of a table: its lines after the two header lines.
LinhasDeDados(t) == SubSeq(LinhasDoTexto(t), 3, Len(LinhasDoTexto(t)))

\* The table read back: every data row is a row of two columns, and the pairs
\* they read as, in order.
TabelaLida(t) ==
    [ok |-> Len(LinhasDoTexto(t)) >= 2 /\ \A k \in 1..Len(LinhasDeDados(t)) : LinhaDeDuasColunas(LinhasDeDados(t)[k]),
     pares |-> [k \in 1..Len(LinhasDeDados(t)) |-> IF LinhaDeDuasColunas(LinhasDeDados(t)[k]) THEN ParDaLinhaDaTabela(LinhasDeDados(t)[k]) ELSE [idade |-> <<>>, resposta |-> <<>>]]]

\* C13: for every list of AnswerEntry, the empty one included, the data rows of
\* its table, read back with "\|" put back to "|", are the (ageContext, answer)
\* pairs of the list, in the same order.
C13_IdaEVolta ==
    consulta.estado = "retornou" =>
        \A i \in 1..Len(consulta.resultados) :
            LET v == RespostasDoMatch(i)
            IN ListaDeRespostas(v) =>
                  /\ TabelaLida(consulta.resultados[i].tabela).ok
                  /\ TabelaLida(consulta.resultados[i].tabela).pares = [k \in 1..Len(v.v) |-> ParDaResposta(v, k)]

\* C14: the text rendered for an empty list of AnswerEntry is the placeholder
\* of no answers: it is not empty, and it is not a table with data rows (no
\* line under the header reads as a row of two columns).
C14_SemRespostas ==
    consulta.estado = "retornou" =>
        \A i \in 1..Len(consulta.resultados) :
            LET v == RespostasDoMatch(i)
                t == consulta.resultados[i].tabela
            IN (ListaDeRespostas(v) /\ v.v = <<>>) =>
                  /\ t # <<>>
                  /\ Contem(t, <<"N", "e", "n", "h", "u", "m", "a", " ", "r", "e", "s", "p", "o", "s", "t", "a">>)
                  /\ \A k \in 1..Len(LinhasDeDados(t)) : ~LinhaDeDuasColunas(LinhasDeDados(t)[k])

\* C15: a call whose grouping keeps no question returns None, and it persists
\* nothing: it creates no collection and adds no entry, and no collection of
\* that name is in the store.
C15_PlanilhaSemPerguntas ==
    \A b \in Construtores : (Agrupou(b) /\ agrupadas[b] = <<>>) =>
        /\ pc[b] = "retornou"
        /\ ret[b] = "None"
        /\ "criou" \notin efeitos[b]
        /\ "adicionou" \notin efeitos[b]
        /\ ~colecao.existe
        /\ colecao.itens = <<>>

\* A spreadsheet with rows, none of which has a question, was read and the
\* call returned.
C15_Witness ==
    \E b \in Construtores :
        /\ Agrupou(b)
        /\ df[b] # <<>>
        /\ agrupadas[b] = <<>>
        /\ pc[b] = "retornou"

\* C16: a call that reads a spreadsheet path that does not exist fails on the
\* missing file, one that reads a spreadsheet of fewer than 3 columns fails on
\* the columns; both return None, group nothing and create no collection.  A
\* spreadsheet of 3 columns or more is read.
C16_ErrosDaFonte ==
    \A b \in Construtores : "leu" \in efeitos[b] =>
        /\ ~planilha.existe => "FileNotFoundError" \in efeitos[b] /\ "colunas" \notin efeitos[b]
        /\ (planilha.existe /\ planilha.ncols < 3) => "colunas" \in efeitos[b] /\ "FileNotFoundError" \notin efeitos[b]
        /\ (planilha.existe /\ planilha.ncols >= 3) => Agrupou(b)
        /\ (~planilha.existe \/ planilha.ncols < 3) =>
              /\ pc[b] = "retornou"
              /\ ret[b] = "None"
              /\ ~Agrupou(b)
              /\ "criou" \notin efeitos[b]
              /\ ~colecao.existe

\* A forced rebuild read a spreadsheet of two columns where a collection
\* existed.
C16_Witness ==
    \E b \in Construtores :
        /\ "colunas" \in efeitos[b]
        /\ planilha.ncols = 2
        /\ forcar[b]
        /\ colAntes[b].existe
        /\ ret[b] = "None"

\* s is the beginning of t, and shorter than t.
PrefixoProprio(s, t) == Len(s) < Len(t) /\ s = SubSeq(t, 1, Len(s))

\* C17: a call whose collection.add fails after the collection was created
\* returns None without a second attempt, and the collection it created stays
\* in the store, empty or with the entries added before the failure.
C17_FalhaNaInsercao ==
    \A b \in Construtores : "falhou" \in efeitos[b] =>
        /\ pc[b] = "retornou"
        /\ ret[b] = "None"
        /\ "criou" \in efeitos[b]
        /\ colecao.existe
        /\ PrefixoProprio(colecao.itens, Entradas(agrupadas[b]))

\* An insert of two entries failed after the first.
C17_Witness ==
    \E b \in Construtores :
        /\ "falhou" \in efeitos[b]
        /\ Len(colecao.itens) = 1
        /\ Len(agrupadas[b]) = 2

\* The store holds what a successful build of the spreadsheet, as it is now,
\* leaves in it.
ConstruidaDaPlanilha == colecao.existe /\ colecao.itens # <<>> /\ colecao.itens = Entradas(Agrupar(LinhasAtuais))

\* C18: a query that the store answers, after a successful build from a
\* spreadsheet of n unique questions, returns min(n_results, n) matches; the
\* question of each is one of the questions indexed, and its table has exactly
\* one data row per answer grouped under that question, in the same order and
\* with the same values.  For a spreadsheet of two rows under one question it
\* returns one match, whose table has two data rows.
C18_ConstruirEConsultar ==
    (consulta.estado # "idle" /\ ~consulta.falhou /\ ConstruidaDaPlanilha) =>
        LET d == Agrupar(LinhasAtuais)
        IN /\ consulta.estado = "retornou"
           /\ Len(consulta.resultados) = (IF consulta.n < Len(d) THEN consulta.n ELSE Len(d))
           /\ \A i \in 1..Len(consulta.resultados) :
                 \E j \in 1..Len(d) :
                     /\ consulta.resultados[i].pergunta_base = d[j].pergunta
                     /\ TabelaLida(consulta.resultados[i].tabela).ok
                     /\ TabelaLida(consulta.resultados[i].tabela).pares = d[j].respostas
           /\ (Len(LinhasAtuais) = 2 /\ Len(d) = 1 /\ Len(d[1].respostas) = 2) =>
                 /\ Len(consulta.resultados) = 1
                 /\ Len(LinhasDeDados(consulta.resultados[1].tabela)) = 2

\* The create step of the call of b found the collection already created.
Duplicada(b) == "duplicada" \in efeitos[b]

\* C19: a build whose create step finds the collection already created by the
\* other build goes on with the existing collection (it does not return at the
\* create step, it inserts), and once both builds have finished, the insert
\* of one of them at least having succeeded, the collection holds exactly one
\* entry per unique question of the spreadsheet.
C19_CorridaNaCriacao ==
    /\ \A b \in Construtores : Duplicada(b) =>
          /\ colecao.existe
          /\ "criou" \notin efeitos[b]
          /\ pc[b] \in {"adicionar", "retornou"}
          /\ pc[b] = "retornou" => "adicionou" \in efeitos[b]
    /\ ((\A b \in Construtores : pc[b] = "retornou") /\ (\E b \in Construtores : Duplicada(b)) /\ (\E b \in Construtores : Construiu(b))) =>
          /\ colecao.itens = Entradas(Agrupar(LinhasAtuais))
          /\ \A i, k \in 1..Len(colecao.itens) : i # k => colecao.itens[i].documento # colecao.itens[k].documento
          /\ Len(colecao.itens) = Cardinality({ChaveDaLinha(LinhasAtuais, j) : j \in {x \in 1..Len(LinhasAtuais) : ChaveValida(ChaveDaLinha(LinhasAtuais, x))}})

\* Both builds of a spreadsheet of two questions have finished, the second one
\* having found the collection that the first created.
C19_Witness ==
    /\ \A b \in Construtores : pc[b] = "retornou" /\ "adicionou" \in efeitos[b]
    /\ "criou" \in efeitos["b1"]
    /\ Duplicada("b2")
    /\ ret["b2"] = "colecao"
    /\ Len(colecao.itens) = 2

\* C20: a call of buscar_perguntas_no_banco, whatever it returns or raises,
\* leaves the store as it was (no collection created or deleted, no entry added
\* or changed, no directory made), and no step that changes the store is a
\* step of the query.
C20_ConsultaSoLe ==
    [][/\ consulta' # consulta => (colecao' = colecao /\ dirExiste' = dirExiste)
       /\ (colecao' # colecao \/ dirExiste' # dirExiste) => consulta' = consulta]_vars

\* A query of a store of two entries returned one match.
C20_Witness ==
    /\ consulta.estado = "retornou"
    /\ consulta.n = 1
    /\ Len(consulta.resultados) = 1
    /\ Len(colecao.itens) = 2

C22_ColecaoRetornadaPopulada ==
    \A b \in Construtores : (pc[b] = "retornou" /\ ret[b] = "colecao") =>
        /\ colecao.existe
        /\ colecao.itens # <<>>
        /\ \A j \in 1..Len(LinhasAtuais) : ChaveValida(ChaveDaLinha(LinhasAtuais, j)) =>
              \E i \in 1..Len(colecao.itens) : colecao.itens[i].documento = ChaveDaLinha(LinhasAtuais, j)

\* The call of b failed at the source: the spreadsheet is missing, has fewer
\* than 3 columns, or its grouping kept no question.
FalhouNaFonte(b) ==
    /\ pc[b] = "retornou"
    /\ ret[b] = "None"
    /\ "FileNotFoundError" \in efeitos[b] \/ "colunas" \in efeitos[b] \/ (Agrupou(b) /\ agrupadas[b] = <<>>)

\* C23: after a forced rebuild that failed at the source, the collection that
\* existed before the call is still there with its entries unchanged.
C23_ReconstrucaoFalhaMantemIndice ==
    \A b \in Construtores : (EmChamada(b, TRUE) /\ FalhouNaFonte(b) /\ colAntes[b].existe) =>
        /\ colecao.existe
        /\ colecao = colAntes[b]

====
